---------------------------- MODULE Spec2Model ----------------------------
(***************************************************************************)
(* The Strategy pattern examples: three namespaces (ReferenceSemantics,    *)
(* ValueSemantics, Template), each with an IntValue and a FloatValue       *)
(* container, an Increment and a Decrement strategy for each, the factory  *)
(* CreateRandomValue and a benchmark that builds valueCount containers and *)
(* calls Operation() once on each.                                         *)
(*                                                                         *)
(* Scalars.  An IntValue holds an int32_t, modelled as a TLA+ integer in   *)
(* [INT32_MIN, INT32_MAX].  A FloatValue holds a float_t, taken to be the  *)
(* IEEE-754 binary32 type (FLT_EVAL_METHOD 0); a finite binary32 number is *)
(* modelled exactly, as the record [m, e] that stands for m * 2^e, in the  *)
(* canonical form described at IsFloat.  Infinities and NaNs are outside   *)
(* the modelled domain (adding or subtracting 1.0f never produces one from *)
(* a finite number), and the two zeros, which compare equal, are one.      *)
(***************************************************************************)
EXTENDS Integers, Sequences, FiniteSets, TLC

(***************************************************************************)
(* int32_t                                                                 *)
(***************************************************************************)
INT32_MAX == 2147483647

INT32_MIN == (-2147483647) - 1

\* The outcomes of evaluating the int expression v + d (d is 1 or -1) and
\* storing it.  In range, the sum.  Out of range the addition is a signed
\* overflow, which is undefined behaviour: a build wraps modulo 2^32 (the
\* plain add instruction) or traps (overflow checking instrumentation).
Int32Add(v, d) ==
    IF d = 1 /\ v = INT32_MAX
      THEN {[val |-> INT32_MIN, fault |-> "none"],
            [val |-> v, fault |-> "overflow_trap"]}
    ELSE IF d = -1 /\ v = INT32_MIN
      THEN {[val |-> INT32_MAX, fault |-> "none"],
            [val |-> v, fault |-> "overflow_trap"]}
    ELSE {[val |-> v + d, fault |-> "none"]}

(***************************************************************************)
(* float (IEEE-754 binary32), round to nearest, ties to even               *)
(***************************************************************************)
Pow2(n) == 2 ^ n

Abs(n) == IF n < 0 THEN -n ELSE n

Sgn(n) == IF n < 0 THEN -1 ELSE 1

\* The canonical forms: zero is [0, 0]; a normal number has
\* 2^23 <= |m| < 2^24 and -149 <= e <= 104; a subnormal has |m| < 2^23 and
\* e = -149.
IsFloat(x) ==
    /\ x.m \in Int /\ x.e \in Int
    /\ \/ x.m = 0 /\ x.e = 0
       \/ Abs(x.m) >= Pow2(23) /\ Abs(x.m) < Pow2(24) /\ x.e >= -149 /\ x.e <= 104
       \/ x.m # 0 /\ Abs(x.m) < Pow2(23) /\ x.e = -149

\* The number of binary digits of a > 0 (a < 2^31).
RECURSIVE BitLength(_)
BitLength(a) == IF a = 0 THEN 0 ELSE 1 + BitLength(a \div 2)

\* The binary32 number nearest to n * 2^e (|n| < 2^31, the result within the
\* normal range), ties to the even significand.
RoundToFloat(n, e) ==
    LET a    == Abs(n)
        bits == BitLength(a)
    IN  IF a = 0 THEN [m |-> 0, e |-> 0]
        ELSE IF bits > 24
          THEN LET sh   == bits - 24
                   q    == a \div Pow2(sh)
                   r    == a % Pow2(sh)
                   half == Pow2(sh - 1)
                   up   == r > half \/ (r = half /\ q % 2 = 1)
                   q2   == IF up THEN q + 1 ELSE q
               IN  IF q2 = Pow2(24)
                     THEN [m |-> Sgn(n) * Pow2(23), e |-> e + sh + 1]
                     ELSE [m |-> Sgn(n) * q2, e |-> e + sh]
        ELSE LET sh == IF 24 - bits <= e + 149 THEN 24 - bits ELSE e + 149
             IN  [m |-> Sgn(n) * a * Pow2(sh), e |-> e - sh]

\* static_cast<float>(n) of an int32 n.
FloatOfInt(n) ==
    IF n = INT32_MIN THEN [m |-> -Pow2(23), e |-> 8] ELSE RoundToFloat(n, 0)

\* The float expression x + 1.0f (d = 1) or x - 1.0f (d = -1).
\*   e >= 2:  1 is below half a unit in the last place of x, and of the
\*            binade under it: the sum rounds back to x.
\*   -27 <= e <= 1:  the exact sum m * 2^e + d is an integer multiple of
\*            2^e (2^0 for e = 1) that fits the integers; it is rounded once.
\*   e < -27: |x| < 2^-4, so the sum lies in (1/2, 2) and its last place is
\*            at least 2^-24; x is cut to a multiple of 2^-27 and a sticky
\*            bit at 2^-28 that stands for the digits cut off.
FloatAdd1(x, d) ==
    IF x.m = 0 THEN [m |-> d * Pow2(23), e |-> -23]
    ELSE IF x.e >= 2 THEN x
    ELSE IF x.e = 1 THEN RoundToFloat(2 * x.m + d, 0)
    ELSE IF x.e >= -27 THEN RoundToFloat(x.m + d * Pow2(-x.e), x.e)
    ELSE LET sh     == (-x.e) - 27
             a      == Abs(x.m)
             q      == IF sh >= 24 THEN 0 ELSE a \div Pow2(sh)
             sticky == IF sh >= 24 THEN 1
                       ELSE IF a % Pow2(sh) # 0 THEN 1 ELSE 0
         IN  RoundToFloat(d * Pow2(28) + Sgn(x.m) * (2 * q + sticky), -28)


(***************************************************************************)
(* State                                                                   *)
(*                                                                         *)
(* A container is the record                                               *)
(*   [ns, cls, m_OperationStrategy, m_Value]                               *)
(* of its namespace ("ReferenceSemantics", "ValueSemantics", "Template"),  *)
(* its class ("IntValue", "FloatValue") and its two data members.          *)
(* m_OperationStrategy is                                                  *)
(*   ReferenceSemantics: a std::unique_ptr, the address of a strategy      *)
(*       object on the heap, or 0 (nullptr);                               *)
(*   ValueSemantics: a std::function, its target "Increment" or            *)
(*       "Decrement", or "empty";                                          *)
(*   Template: the member of type TOperationStrategy, "Increment" or       *)
(*       "Decrement", fixed by the container's type.                       *)
(***************************************************************************)
VARIABLES
    values,     \* the live containers: slot -> container (a std::vector in
                \* the benchmark, the test's local objects otherwise)
    heap,       \* the strategy objects of ReferenceSemantics: address ->
                \* "free", "Increment" or "Decrement" (the dynamic type)
    handle,     \* the caller's std::unique_ptr<OperationStrategy>: an
                \* address, or 0
    fault,      \* "none" while the program runs; else how it left defined
                \* behaviour or was terminated
    lastCall,   \* history: the latest call, [op, id, arg]
    hist,       \* history: slot -> [init, ops, assigned]: the value the
                \* container was given last (constructor or SetValue), the
                \* behaviours the caller had assigned when each Operation()
                \* since then was called, and the behaviour the caller
                \* passed last (constructor or SetOperationStrategy)
    bench       \* the driver's position, [ns, phase, i]: the benchmark's
                \* namespace, loop and index; in the side-by-side run of the
                \* three namespaces, i = 1 once a strategy was swapped

vars == <<values, heap, handle, fault, lastCall, hist, bench>>

Namespaces == {"ReferenceSemantics", "ValueSemantics", "Template"}

Classes == {"IntValue", "FloatValue"}

Behaviours == {"Increment", "Decrement"}

\* Bounds of the model.
MaxStrategies == 4

MaxOps == 4

MaxOpsMulti == 1

MaxValueCount == 4

\* src/valuesemantics_examples.h:174 (and the two other benchmarks)
valueCount == 50000

nullptr == 0

Addresses == 1..MaxStrategies

\* Scalars the callers pass to the constructors and to SetValue.
FLT_MAX == [m |-> Pow2(24) - 1, e |-> 104]

IntSamples == {INT32_MIN, -1, 0, INT32_MAX}

FloatSamples ==
    {FloatOfInt(0), FloatOfInt(-1), FloatOfInt(16777215), FloatOfInt(16777216),
     FloatOfInt(-16777216), FLT_MAX, [m |-> Pow2(23), e |-> -48]}

Samples(cls) == IF cls = "IntValue" THEN IntSamples ELSE FloatSamples

Zero(cls) == IF cls = "IntValue" THEN 0 ELSE FloatOfInt(0)

(***************************************************************************)
(* The heap of strategy objects (std::make_unique, delete)                 *)
(***************************************************************************)
Min(S) == CHOOSE a \in S : \A b \in S : a <= b

FreeAddresses(h) == {a \in Addresses : h[a] = "free"}

\* std::make_unique<...OperationStrategy>(): the address it returns.
MakeUniqueAt(h) == Min(FreeAddresses(h))

\* The dynamic type of the object a unique_ptr p points to ("none" for
\* nullptr).
Pointee(h, p) == IF p = nullptr THEN "none" ELSE h[p]

\* The heap after a unique_ptr that holds p releases it (delete p).
Delete(h, p) == IF p = nullptr THEN h ELSE [h EXCEPT ![p] = "free"]


(***************************************************************************)
(* namespace ReferenceSemantics (prefix RS_)                               *)
(***************************************************************************)
\* The constructor of IntValue / FloatValue: the unique_ptr passed is moved
\* into m_OperationStrategy.
RS_Value(cls, value, operationStrategy) ==
    [ns |-> "ReferenceSemantics", cls |-> cls,
     m_OperationStrategy |-> operationStrategy, m_Value |-> value]

\* m_OperationStrategy = std::move(operationStrategy): the container takes
\* the pointer passed.  (The heap and the caller's handle are the action's.)
RS_SetOperationStrategy(self, operationStrategy) ==
    [self EXCEPT !.m_OperationStrategy = operationStrategy]

\* ReferenceSemantics:: the accessors of IntValue and FloatValue.
RS_GetValue(self) == self.m_Value

RS_SetValue(self, value) == [self EXCEPT !.m_Value = value]

\* ReferenceSemantics:: the four strategies.  Each yields the set of outcomes
\* [obj, fault] of running it on the container `value`.
RS_IncrementIntValueOperationStrategy(value) ==
    {[obj |-> RS_SetValue(value, r.val), fault |-> r.fault] :
        r \in Int32Add(RS_GetValue(value), 1)}

RS_DecrementIntValueOperationStrategy(value) ==
    {[obj |-> RS_SetValue(value, r.val), fault |-> r.fault] :
        r \in Int32Add(RS_GetValue(value), -1)}

\* Mutant: the increment strategy subtracts (the decrement's line copied).
RS_IncrementFloatValueOperationStrategy_Subtracts(value) ==
    {[obj |-> RS_SetValue(value, FloatAdd1(RS_GetValue(value), -1)),
      fault |-> "none"]}

RS_IncrementFloatValueOperationStrategy(value) ==
    {[obj |-> RS_SetValue(value, FloatAdd1(RS_GetValue(value), 1)),
      fault |-> "none"]}

\* Mutant: the decrement strategy subtracts 2.0f.
RS_DecrementFloatValueOperationStrategy_Two(value) ==
    {[obj |-> RS_SetValue(value, FloatAdd1(FloatAdd1(RS_GetValue(value), -1), -1)),
      fault |-> "none"]}

RS_DecrementFloatValueOperationStrategy(value) ==
    {[obj |-> RS_SetValue(value, FloatAdd1(RS_GetValue(value), -1)),
      fault |-> "none"]}

\* The strategy of behaviour b for the class of `self`, run on `self`.
RS_Run(b, self) ==
    IF self.cls = "IntValue"
      THEN IF b = "Increment" THEN RS_IncrementIntValueOperationStrategy(self)
           ELSE RS_DecrementIntValueOperationStrategy(self)
      ELSE IF b = "Increment" THEN RS_IncrementFloatValueOperationStrategy(self)
           ELSE RS_DecrementFloatValueOperationStrategy(self)

\* m_OperationStrategy->Operation(*this): a virtual call through the
\* pointer, dispatched on the dynamic type h[p] of the object it points to.
\* Through nullptr the call is undefined behaviour: the read of the vtable
\* pointer at address 0 faults and the program is terminated.
RS_Operation(self, h) ==
    IF self.m_OperationStrategy = nullptr
      THEN {[obj |-> self, fault |-> "null_dereference"]}
      ELSE RS_Run(h[self.m_OperationStrategy], self)

(***************************************************************************)
(* namespace ValueSemantics (prefix VS_)                                   *)
(***************************************************************************)
\* What a std::function<void(IntValue&)> can hold.
VS_Targets == Behaviours \cup {"empty"}

VS_Value(cls, value, operationStrategy) ==
    [ns |-> "ValueSemantics", cls |-> cls,
     m_OperationStrategy |-> operationStrategy, m_Value |-> value]

\* Mutant: the strategy passed is dropped, the container keeps its own.
VS_SetOperationStrategy_Dropped(self, operationStrategy) == self

\* Mutant: the assignment also resets the scalar.
VS_SetOperationStrategy_Resets(self, operationStrategy) ==
    [self EXCEPT !.m_OperationStrategy = operationStrategy,
                 !.m_Value = Zero(self.cls)]

VS_SetOperationStrategy(self, operationStrategy) ==
    [self EXCEPT !.m_OperationStrategy = operationStrategy]

\* ValueSemantics:: the accessors of IntValue and FloatValue.
VS_GetValue(self) == self.m_Value

VS_SetValue(self, value) == [self EXCEPT !.m_Value = value]

\* ValueSemantics:: the four strategies.  Each yields the set of outcomes
\* [obj, fault] of running it on the container `value`.
VS_IncrementIntValueOperationStrategy(value) ==
    {[obj |-> VS_SetValue(value, r.val), fault |-> r.fault] :
        r \in Int32Add(VS_GetValue(value), 1)}

\* Mutant: the decrement lambda adds.
VS_DecrementIntValueOperationStrategy_Adds(value) ==
    {[obj |-> VS_SetValue(value, r.val), fault |-> r.fault] :
        r \in Int32Add(VS_GetValue(value), 1)}

VS_DecrementIntValueOperationStrategy(value) ==
    {[obj |-> VS_SetValue(value, r.val), fault |-> r.fault] :
        r \in Int32Add(VS_GetValue(value), -1)}

VS_IncrementFloatValueOperationStrategy(value) ==
    {[obj |-> VS_SetValue(value, FloatAdd1(VS_GetValue(value), 1)),
      fault |-> "none"]}

VS_DecrementFloatValueOperationStrategy(value) ==
    {[obj |-> VS_SetValue(value, FloatAdd1(VS_GetValue(value), -1)),
      fault |-> "none"]}

\* The strategy of behaviour b for the class of `self`, run on `self`.
VS_Run(b, self) ==
    IF self.cls = "IntValue"
      THEN IF b = "Increment" THEN VS_IncrementIntValueOperationStrategy(self)
           ELSE VS_DecrementIntValueOperationStrategy(self)
      ELSE IF b = "Increment" THEN VS_IncrementFloatValueOperationStrategy(self)
           ELSE VS_DecrementFloatValueOperationStrategy(self)

\* Mutant: the call moves the target out of the std::function, which is
\* left empty.
VS_Operation_Consumes(self) ==
    IF self.m_OperationStrategy = "empty"
      THEN {[obj |-> self, fault |-> "bad_function_call"]}
      ELSE {[obj |-> [r.obj EXCEPT !.m_OperationStrategy = "empty"],
             fault |-> r.fault] :
              r \in VS_Run(self.m_OperationStrategy, self)}

\* m_OperationStrategy(*this): std::function::operator(), which throws
\* std::bad_function_call when the function is empty.
VS_Operation(self) ==
    IF self.m_OperationStrategy = "empty"
      THEN {[obj |-> self, fault |-> "bad_function_call"]}
      ELSE VS_Run(self.m_OperationStrategy, self)

(***************************************************************************)
(* namespace Template (prefix T_)                                          *)
(***************************************************************************)
\* The constructor of IntValue<TOperationStrategy> /
\* FloatValue<TOperationStrategy>; m_OperationStrategy is default-built.
T_Value(cls, TOperationStrategy, value) ==
    [ns |-> "Template", cls |-> cls,
     m_OperationStrategy |-> TOperationStrategy, m_Value |-> value]

\* Template:: the accessors of IntValue and FloatValue.
T_GetValue(self) == self.m_Value

T_SetValue(self, value) == [self EXCEPT !.m_Value = value]

\* Template:: the four strategies.  Each yields the set of outcomes
\* [obj, fault] of running it on the container `value`.
T_IncrementIntValueOperationStrategy(value) ==
    {[obj |-> T_SetValue(value, r.val), fault |-> r.fault] :
        r \in Int32Add(T_GetValue(value), 1)}

\* Mutant: the decrement strategy adds.
T_DecrementIntValueOperationStrategy_Adds(value) ==
    {[obj |-> T_SetValue(value, r.val), fault |-> r.fault] :
        r \in Int32Add(T_GetValue(value), 1)}

T_DecrementIntValueOperationStrategy(value) ==
    {[obj |-> T_SetValue(value, r.val), fault |-> r.fault] :
        r \in Int32Add(T_GetValue(value), -1)}

T_IncrementFloatValueOperationStrategy(value) ==
    {[obj |-> T_SetValue(value, FloatAdd1(T_GetValue(value), 1)),
      fault |-> "none"]}

T_DecrementFloatValueOperationStrategy(value) ==
    {[obj |-> T_SetValue(value, FloatAdd1(T_GetValue(value), -1)),
      fault |-> "none"]}

\* The strategy of behaviour b for the class of `self`, run on `self`.
T_Run(b, self) ==
    IF self.cls = "IntValue"
      THEN IF b = "Increment" THEN T_IncrementIntValueOperationStrategy(self)
           ELSE T_DecrementIntValueOperationStrategy(self)
      ELSE IF b = "Increment" THEN T_IncrementFloatValueOperationStrategy(self)
           ELSE T_DecrementFloatValueOperationStrategy(self)

\* m_OperationStrategy(*this): a direct call, bound at compile time.
T_Operation(self) == T_Run(self.m_OperationStrategy, self)

(***************************************************************************)
(* The factories                                                           *)
(***************************************************************************)
\* ReferenceSemantics::CreateRandomValue, given the results b1, b2 of its
\* two Random::RandomBool() calls in the order it makes them, and the
\* address a that its std::make_unique of the strategy returns.
RS_CreateRandomValue(b1, b2, a) ==
    IF b1
      THEN RS_Value("IntValue", 0, a)
      ELSE RS_Value("FloatValue", FloatOfInt(0), a)

\* The dynamic type of the strategy object it makes.
RS_CreateRandomStrategy(b1, b2) == IF b2 THEN "Increment" ELSE "Decrement"

\* Mutant: the two draws are used the other way round.
VS_CreateRandomValue_Crossed(b1, b2) ==
    IF b2
      THEN VS_Value("IntValue", 0, IF b1 THEN "Increment" ELSE "Decrement")
      ELSE VS_Value("FloatValue", FloatOfInt(0),
                    IF b1 THEN "Increment" ELSE "Decrement")

VS_CreateRandomValue(b1, b2) ==
    IF b1
      THEN VS_Value("IntValue", 0, IF b2 THEN "Increment" ELSE "Decrement")
      ELSE VS_Value("FloatValue", FloatOfInt(0),
                    IF b2 THEN "Increment" ELSE "Decrement")

T_CreateRandomValue(b1, b2) ==
    IF b1
      THEN IF b2 THEN T_Value("IntValue", "Increment", 0)
           ELSE T_Value("IntValue", "Decrement", 0)
      ELSE IF b2 THEN T_Value("FloatValue", "Increment", FloatOfInt(0))
           ELSE T_Value("FloatValue", "Decrement", FloatOfInt(0))


(***************************************************************************)
(* Dispatch on the container's namespace                                   *)
(***************************************************************************)
\* The behaviour a container is assigned at present; "none" for a null
\* unique_ptr and for an empty std::function.
Behaviour(self, h) ==
    IF self.ns = "ReferenceSemantics"
      THEN Pointee(h, self.m_OperationStrategy)
    ELSE IF self.ns = "ValueSemantics"
      THEN IF self.m_OperationStrategy = "empty" THEN "none"
           ELSE self.m_OperationStrategy
    ELSE self.m_OperationStrategy

\* Value::Operation(), the virtual call on a container of any namespace.
Operation(self, h) ==
    IF self.ns = "ReferenceSemantics" THEN RS_Operation(self, h)
    ELSE IF self.ns = "ValueSemantics" THEN VS_Operation(self)
    ELSE T_Operation(self)

GetValue(self) ==
    IF self.ns = "ReferenceSemantics" THEN RS_GetValue(self)
    ELSE IF self.ns = "ValueSemantics" THEN VS_GetValue(self)
    ELSE T_GetValue(self)

SetValue(self, value) ==
    IF self.ns = "ReferenceSemantics" THEN RS_SetValue(self, value)
    ELSE IF self.ns = "ValueSemantics" THEN VS_SetValue(self, value)
    ELSE T_SetValue(self, value)

\* The strategy object a container owns on the heap (nullptr if none).
Owned(self) ==
    IF self.ns = "ReferenceSemantics" THEN self.m_OperationStrategy ELSE nullptr

Live == DOMAIN values

Without(f, i) == [j \in (DOMAIN f) \ {i} |-> f[j]]

(***************************************************************************)
(* Initial state: no container, an empty heap, an empty handle.            *)
(***************************************************************************)
Init ==
    /\ values = <<>>
    /\ heap = [a \in Addresses |-> "free"]
    /\ handle = nullptr
    /\ fault = "none"
    /\ lastCall = [op |-> "none", id |-> 0]
    /\ hist = <<>>
    /\ bench = [ns |-> "none", phase |-> "idle", i |-> 0]

(***************************************************************************)
(* The callers' steps                                                      *)
(***************************************************************************)
\* handle = std::make_unique<Increment...OperationStrategy>() (b chooses the
\* class): the caller makes a strategy object.
MakeUnique(b) ==
    /\ fault = "none"
    /\ handle = nullptr
    /\ FreeAddresses(heap) # {}
    /\ handle' = MakeUniqueAt(heap)
    /\ heap' = [heap EXCEPT ![MakeUniqueAt(heap)] = b]
    /\ lastCall' = [op |-> "make_unique", id |-> 0]
    /\ UNCHANGED <<values, fault, hist, bench>>

\* ReferenceSemantics: IntValue v{value, std::move(handle)}.  The handle may
\* hold a strategy or be empty (never filled, or moved from); the move
\* leaves it empty.
RS_Construct(i, cls, value) ==
    /\ fault = "none"
    /\ i \notin Live
    /\ values' = (i :> RS_Value(cls, value, handle)) @@ values
    /\ handle' = nullptr
    /\ hist' = (i :> [init |-> value, ops |-> <<>>,
                      assigned |-> Pointee(heap, handle)]) @@ hist
    /\ lastCall' = [op |-> "Construct", id |-> i]
    /\ UNCHANGED <<heap, fault, bench>>

\* ValueSemantics: IntValue v{value, s}, s a callable or an empty
\* std::function.
VS_Construct(i, cls, value, s) ==
    /\ fault = "none"
    /\ i \notin Live
    /\ values' = (i :> VS_Value(cls, value, s)) @@ values
    /\ hist' = (i :> [init |-> value, ops |-> <<>>,
                      assigned |-> IF s = "empty" THEN "none" ELSE s]) @@ hist
    /\ lastCall' = [op |-> "Construct", id |-> i]
    /\ UNCHANGED <<heap, handle, fault, bench>>

\* Template: IntValue<S> v{value}.
T_Construct(i, cls, S, value) ==
    /\ fault = "none"
    /\ i \notin Live
    /\ values' = (i :> T_Value(cls, S, value)) @@ values
    /\ hist' = (i :> [init |-> value, ops |-> <<>>, assigned |-> S]) @@ hist
    /\ lastCall' = [op |-> "Construct", id |-> i]
    /\ UNCHANGED <<heap, handle, fault, bench>>

\* ReferenceSemantics: v.SetOperationStrategy(std::move(handle)).  The
\* move assignment takes the handle's pointer, deletes the strategy held
\* before and leaves the handle empty.
RS_CallSetOperationStrategy(i) ==
    /\ fault = "none"
    /\ i \in Live
    /\ values[i].ns = "ReferenceSemantics"
    /\ values' = [values EXCEPT ![i] = RS_SetOperationStrategy(@, handle)]
    /\ heap' = Delete(heap, values[i].m_OperationStrategy)
    /\ handle' = nullptr
    /\ hist' = [hist EXCEPT ![i].assigned = Pointee(heap, handle)]
    /\ lastCall' = [op |-> "SetOperationStrategy", id |-> i]
    /\ UNCHANGED <<fault, bench>>

\* ValueSemantics: v.SetOperationStrategy(s).
VS_CallSetOperationStrategy(i, s) ==
    /\ fault = "none"
    /\ i \in Live
    /\ values[i].ns = "ValueSemantics"
    /\ values' = [values EXCEPT ![i] = VS_SetOperationStrategy(@, s)]
    /\ hist' = [hist EXCEPT ![i].assigned = IF s = "empty" THEN "none" ELSE s]
    /\ lastCall' = [op |-> "SetOperationStrategy", id |-> i]
    /\ UNCHANGED <<heap, handle, fault, bench>>

\* value->Operation() on the container in slot i, while it has had fewer
\* than cap Operation() calls since it was given its value: the effect on
\* everything but the benchmark's position.
OperationAt(i, cap) ==
    /\ fault = "none"
    /\ i \in Live
    /\ Len(hist[i].ops) < cap
    /\ \E r \in Operation(values[i], heap) :
         /\ values' = [values EXCEPT ![i] = r.obj]
         /\ fault' = r.fault
    /\ hist' = [hist EXCEPT ![i].ops = Append(@, hist[i].assigned)]
    /\ lastCall' = [op |-> "Operation", id |-> i]
    /\ UNCHANGED <<heap, handle>>

\* value->Operation(), called by a test.
CallOperation(i, cap) == OperationAt(i, cap) /\ UNCHANGED bench

\* v.GetValue(): const, the caller only reads.
CallGetValue(i) ==
    /\ fault = "none"
    /\ i \in Live
    /\ lastCall' = [op |-> "GetValue", id |-> i]
    /\ UNCHANGED <<values, heap, handle, fault, hist, bench>>

\* Mutant: m_Value is shared (a static member): the call sets the scalar
\* of every live container of the same class.
CallSetValue_Shared(i, value) ==
    /\ fault = "none"
    /\ i \in Live
    /\ values' = [j \in Live |->
                    IF values[j].cls = values[i].cls
                      THEN SetValue(values[j], value) ELSE values[j]]
    /\ hist' = [hist EXCEPT ![i].init = value, ![i].ops = <<>>]
    /\ lastCall' = [op |-> "SetValue", id |-> i]
    /\ UNCHANGED <<heap, handle, fault, bench>>

\* v.SetValue(value).
CallSetValue(i, value) ==
    /\ fault = "none"
    /\ i \in Live
    /\ values' = [values EXCEPT ![i] = SetValue(@, value)]
    /\ hist' = [hist EXCEPT ![i].init = value, ![i].ops = <<>>]
    /\ lastCall' = [op |-> "SetValue", id |-> i]
    /\ UNCHANGED <<heap, handle, fault, bench>>

\* The container's destructor: its members are destroyed, and with the
\* unique_ptr of ReferenceSemantics the strategy it holds.
Destroy(i) ==
    /\ fault = "none"
    /\ i \in Live
    /\ values' = Without(values, i)
    /\ hist' = Without(hist, i)
    /\ heap' = Delete(heap, Owned(values[i]))
    /\ lastCall' = [op |-> "Destroy", id |-> i]
    /\ UNCHANGED <<handle, fault, bench>>

\* CreateRandomValue() of namespace ns, its result stored in slot i; b1 and
\* b2 are what its Random::RandomBool() calls return, in order.  The effect
\* on everything but the benchmark's position.
CreateRandomValueAt(i, ns, b1, b2) ==
    /\ fault = "none"
    /\ i \notin Live
    /\ IF ns = "ReferenceSemantics"
         THEN /\ FreeAddresses(heap) # {}
              /\ values' = (i :> RS_CreateRandomValue(b1, b2, MakeUniqueAt(heap)))
                             @@ values
              /\ heap' = [heap EXCEPT ![MakeUniqueAt(heap)] =
                                          RS_CreateRandomStrategy(b1, b2)]
         ELSE /\ values' = (i :> IF ns = "ValueSemantics"
                                   THEN VS_CreateRandomValue(b1, b2)
                                   ELSE T_CreateRandomValue(b1, b2)) @@ values
              /\ heap' = heap
    /\ hist' = (i :> [init |-> Zero(IF b1 THEN "IntValue" ELSE "FloatValue"),
                      ops |-> <<>>,
                      assigned |-> IF b2 THEN "Increment" ELSE "Decrement"])
                 @@ hist
    /\ lastCall' = [op |-> "CreateRandomValue", id |-> i, ns |-> ns,
                    draws |-> <<b1, b2>>]
    /\ UNCHANGED <<handle, fault>>

\* CreateRandomValue(), called on its own.
CallCreateRandomValue(i, ns, b1, b2) ==
    CreateRandomValueAt(i, ns, b1, b2) /\ UNCHANGED bench

(***************************************************************************)
(* Spec: one container, every call of its interface                        *)
(***************************************************************************)
UnitSlots == {1}

Next ==
    \/ \E b \in Behaviours : MakeUnique(b)
    \/ \E i \in UnitSlots, cls \in Classes :
         \E value \in Samples(cls) : RS_Construct(i, cls, value)
    \/ \E i \in UnitSlots, cls \in Classes, s \in VS_Targets :
         \E value \in Samples(cls) : VS_Construct(i, cls, value, s)
    \/ \E i \in UnitSlots, cls \in Classes, S \in Behaviours :
         \E value \in Samples(cls) : T_Construct(i, cls, S, value)
    \/ \E i \in UnitSlots : RS_CallSetOperationStrategy(i)
    \/ \E i \in UnitSlots, s \in VS_Targets : VS_CallSetOperationStrategy(i, s)
    \/ \E i \in UnitSlots : CallOperation(i, MaxOps)
    \/ \E i \in UnitSlots : CallGetValue(i)
    \/ \E i \in UnitSlots :
         \E value \in (IF i \in Live THEN Samples(values[i].cls) ELSE {}) :
            CallSetValue(i, value)
    \/ \E i \in UnitSlots : Destroy(i)
    \/ \E i \in UnitSlots, ns \in Namespaces, b1 \in BOOLEAN, b2 \in BOOLEAN :
         CallCreateRandomValue(i, ns, b1, b2)

Spec == Init /\ [][Next]_vars


(***************************************************************************)
(* SpecMulti: two containers side by side                                  *)
(***************************************************************************)
PairSlots == {1, 2}

\* The scalar passed to SetValue here (the constructors are passed zero).
MultiSamples(cls) ==
    IF cls = "IntValue" THEN {INT32_MAX} ELSE {FloatOfInt(16777216)}

NextMulti ==
    \/ \E b \in Behaviours : MakeUnique(b)
    \/ \E i \in PairSlots, cls \in Classes : RS_Construct(i, cls, Zero(cls))
    \/ \E i \in PairSlots, cls \in Classes, s \in VS_Targets :
         VS_Construct(i, cls, Zero(cls), s)
    \/ \E i \in PairSlots, cls \in Classes, S \in Behaviours :
         T_Construct(i, cls, S, Zero(cls))
    \/ \E i \in PairSlots : RS_CallSetOperationStrategy(i)
    \/ \E i \in PairSlots, s \in VS_Targets : VS_CallSetOperationStrategy(i, s)
    \/ \E i \in PairSlots : CallOperation(i, MaxOpsMulti)
    \/ \E i \in PairSlots :
         \E value \in (IF i \in Live THEN MultiSamples(values[i].cls) ELSE {}) :
            CallSetValue(i, value)
    \/ \E i \in PairSlots : Destroy(i)

SpecMulti == Init /\ [][NextMulti]_vars

(***************************************************************************)
(* SpecBench: the benchmark of each namespace                              *)
(*   values.reserve(valueCount);                                           *)
(*   for (i = 0; i != valueCount; ++i) values.push_back(CreateRandomValue()); *)
(*   for (value : values) value->Operation();                              *)
(***************************************************************************)
\* The number of containers the modelled benchmark builds: valueCount,
\* capped by the bound MaxValueCount.
BenchCount == IF valueCount < MaxValueCount THEN valueCount ELSE MaxValueCount

\* BENCHMARK("Benchmark") of namespace ns starts a run of its block: an
\* empty vector, i = 0.
BenchmarkBegin(ns) ==
    /\ fault = "none"
    /\ bench.phase = "idle"
    /\ Live = {}
    /\ bench' = [ns |-> ns, phase |-> "build", i |-> 0]
    /\ lastCall' = [op |-> "Benchmark", id |-> 0]
    /\ UNCHANGED <<values, heap, handle, fault, hist>>

\* One turn of the first loop: values.push_back(CreateRandomValue()); ++i.
BenchmarkPush ==
    /\ bench.phase = "build"
    /\ bench.i # BenchCount
    /\ \E b1 \in BOOLEAN, b2 \in BOOLEAN :
         CreateRandomValueAt(Len(values) + 1, bench.ns, b1, b2)
    /\ bench' = [bench EXCEPT !.i = @ + 1]

\* The first loop ends at i = valueCount; the second starts at
\* values.begin().
BenchmarkBuilt ==
    /\ fault = "none"
    /\ bench.phase = "build"
    /\ bench.i = BenchCount
    /\ bench' = [bench EXCEPT !.phase = "operate", !.i = 0]
    /\ lastCall' = [op |-> "Benchmark", id |-> 0]
    /\ UNCHANGED <<values, heap, handle, fault, hist>>

\* Mutant: the two loops are fused, Operation() also runs on the element
\* just pushed while the vector is still being built.
BenchmarkOperate_Fused ==
    \/ /\ bench.phase = "operate"
       /\ bench.i # Len(values)
       /\ OperationAt(bench.i + 1, MaxOps)
       /\ bench' = [bench EXCEPT !.i = @ + 1]
    \/ /\ bench.phase = "build"
       /\ Live # {}
       /\ OperationAt(Len(values), MaxOps)
       /\ UNCHANGED bench

\* One turn of the second loop: value->Operation() on the next element.
BenchmarkOperate ==
    /\ bench.phase = "operate"
    /\ bench.i # Len(values)
    /\ OperationAt(bench.i + 1, MaxOps)
    /\ bench' = [bench EXCEPT !.i = @ + 1]

\* The second loop ends at values.end().
BenchmarkOperated ==
    /\ fault = "none"
    /\ bench.phase = "operate"
    /\ bench.i = Len(values)
    /\ bench' = [bench EXCEPT !.phase = "done"]
    /\ lastCall' = [op |-> "Benchmark", id |-> 0]
    /\ UNCHANGED <<values, heap, handle, fault, hist>>

\* The block ends: the vector is destroyed, with it every container and,
\* in ReferenceSemantics, every strategy.
BenchmarkEnd ==
    /\ fault = "none"
    /\ bench.phase = "done"
    /\ values' = <<>>
    /\ hist' = <<>>
    /\ heap' = [a \in Addresses |->
                  IF \E j \in Live : Owned(values[j]) = a THEN "free" ELSE heap[a]]
    /\ bench' = [ns |-> "none", phase |-> "idle", i |-> 0]
    /\ lastCall' = [op |-> "Benchmark", id |-> 0]
    /\ UNCHANGED <<handle, fault>>

NextBench ==
    \/ \E ns \in Namespaces : BenchmarkBegin(ns)
    \/ BenchmarkPush
    \/ BenchmarkBuilt
    \/ BenchmarkOperate
    \/ BenchmarkOperated
    \/ BenchmarkEnd

SpecBench == Init /\ [][NextBench]_vars


(***************************************************************************)
(* SpecLockstep: the unit tests' scenario run side by side on a            *)
(* ReferenceSemantics (slot 1), a ValueSemantics (slot 2) and a Template   *)
(* (slot 3) container of the same class, built with the same value and     *)
(* behaviour and given the same calls.  Each step makes the call on the    *)
(* containers in slot order and stops at the first that faults.            *)
(***************************************************************************)
LockstepConstruct(cls, value, b) ==
    /\ fault = "none"
    /\ bench.phase = "idle"
    /\ Live = {}
    /\ handle = nullptr
    /\ FreeAddresses(heap) # {}
    /\ values' = <<RS_Value(cls, value, MakeUniqueAt(heap)),
                   VS_Value(cls, value, b),
                   T_Value(cls, b, value)>>
    /\ heap' = [heap EXCEPT ![MakeUniqueAt(heap)] = b]
    /\ hist' = [j \in 1..3 |-> [init |-> value, ops |-> <<>>, assigned |-> b]]
    /\ bench' = [ns |-> "all", phase |-> "lockstep", i |-> 0]
    /\ lastCall' = [op |-> "Construct", id |-> 0]
    /\ UNCHANGED <<handle, fault>>

LockstepOperation ==
    /\ fault = "none"
    /\ bench.phase = "lockstep"
    /\ Len(hist[1].ops) < MaxOps
    /\ \E r1 \in Operation(values[1], heap), r2 \in Operation(values[2], heap),
          r3 \in Operation(values[3], heap) :
         LET entered == IF r1.fault # "none" THEN 1
                        ELSE IF r2.fault # "none" THEN 2 ELSE 3
         IN  /\ IF r1.fault # "none"
                  THEN values' = <<r1.obj, values[2], values[3]>>
                       /\ fault' = r1.fault
                ELSE IF r2.fault # "none"
                  THEN values' = <<r1.obj, r2.obj, values[3]>>
                       /\ fault' = r2.fault
                ELSE values' = <<r1.obj, r2.obj, r3.obj>> /\ fault' = r3.fault
             /\ hist' = [j \in 1..3 |->
                           IF j <= entered
                             THEN [hist[j] EXCEPT !.ops = Append(@, hist[j].assigned)]
                             ELSE hist[j]]
    /\ lastCall' = [op |-> "Operation", id |-> 0]
    /\ UNCHANGED <<heap, handle, bench>>

\* SetOperationStrategy(std::make_unique<...>()) on slot 1 and
\* SetOperationStrategy(b) on slot 2; the Template container has no such
\* member and keeps its behaviour.
LockstepSetOperationStrategy(b) ==
    /\ fault = "none"
    /\ bench.phase = "lockstep"
    /\ FreeAddresses(heap) # {}
    /\ values' = <<RS_SetOperationStrategy(values[1], MakeUniqueAt(heap)),
                   VS_SetOperationStrategy(values[2], b),
                   values[3]>>
    /\ heap' = Delete([heap EXCEPT ![MakeUniqueAt(heap)] = b],
                      values[1].m_OperationStrategy)
    /\ hist' = [j \in 1..3 |->
                  IF j = 3 THEN hist[j] ELSE [hist[j] EXCEPT !.assigned = b]]
    /\ bench' = [bench EXCEPT !.i = 1]
    /\ lastCall' = [op |-> "SetOperationStrategy", id |-> 0]
    /\ UNCHANGED <<handle, fault>>

LockstepSetValue(value) ==
    /\ fault = "none"
    /\ bench.phase = "lockstep"
    /\ values' = <<RS_SetValue(values[1], value), VS_SetValue(values[2], value),
                   T_SetValue(values[3], value)>>
    /\ hist' = [j \in 1..3 |-> [hist[j] EXCEPT !.init = value, !.ops = <<>>]]
    /\ lastCall' = [op |-> "SetValue", id |-> 0]
    /\ UNCHANGED <<heap, handle, fault, bench>>

\* The three containers go out of scope.
LockstepDestroy ==
    /\ fault = "none"
    /\ bench.phase = "lockstep"
    /\ values' = <<>>
    /\ hist' = <<>>
    /\ heap' = Delete(heap, Owned(values[1]))
    /\ bench' = [ns |-> "none", phase |-> "idle", i |-> 0]
    /\ lastCall' = [op |-> "Destroy", id |-> 0]
    /\ UNCHANGED <<handle, fault>>

NextLockstep ==
    \/ \E cls \in Classes, b \in Behaviours :
         \E value \in Samples(cls) : LockstepConstruct(cls, value, b)
    \/ LockstepOperation
    \/ \E b \in Behaviours : LockstepSetOperationStrategy(b)
    \/ \E value \in (IF 1 \in Live THEN Samples(values[1].cls) ELSE {}) :
         LockstepSetValue(value)
    \/ LockstepDestroy

SpecLockstep == Init /\ [][NextLockstep]_vars

(***************************************************************************)
(* SpecTwin: an IntValue (slot 1) and a FloatValue (slot 2) of one         *)
(* namespace, built with the same whole number and the same behaviour and  *)
(* given the same Operation() and SetOperationStrategy() calls.  Each step *)
(* makes the call on the IntValue first and stops at the first fault.      *)
(***************************************************************************)
\* The whole numbers the twins are built with: each is an int32_t and,
\* exactly, a float.
WholeSamples == {0, -1, 16777215, 16777216, -16777216, 1073741824}

\* IntValue{value, strategy} or FloatValue{value, strategy} of namespace ns.
Construct(ns, cls, value, b, a) ==
    IF ns = "ReferenceSemantics" THEN RS_Value(cls, value, a)
    ELSE IF ns = "ValueSemantics" THEN VS_Value(cls, value, b)
    ELSE T_Value(cls, b, value)

\* The heap after std::make_unique of a strategy of behaviour b, in
\* ReferenceSemantics; the other namespaces allocate nothing.
HeapWith(ns, h, b) ==
    IF ns = "ReferenceSemantics" THEN [h EXCEPT ![MakeUniqueAt(h)] = b] ELSE h

TwinConstruct(ns, n, b) ==
    /\ fault = "none"
    /\ bench.phase = "idle"
    /\ Live = {}
    /\ handle = nullptr
    /\ LET h1 == HeapWith(ns, heap, b)
       IN  /\ values' = <<Construct(ns, "IntValue", n, b, MakeUniqueAt(heap)),
                          Construct(ns, "FloatValue", FloatOfInt(n), b,
                                    MakeUniqueAt(h1))>>
           /\ heap' = HeapWith(ns, h1, b)
    /\ hist' = <<[init |-> n, ops |-> <<>>, assigned |-> b],
                 [init |-> FloatOfInt(n), ops |-> <<>>, assigned |-> b]>>
    /\ bench' = [ns |-> ns, phase |-> "twin", i |-> 0]
    /\ lastCall' = [op |-> "Construct", id |-> 0]
    /\ UNCHANGED <<handle, fault>>

TwinOperation ==
    /\ fault = "none"
    /\ bench.phase = "twin"
    /\ Len(hist[1].ops) < MaxOps
    /\ \E r1 \in Operation(values[1], heap), r2 \in Operation(values[2], heap) :
         LET entered == IF r1.fault # "none" THEN 1 ELSE 2
         IN  /\ IF r1.fault # "none"
                  THEN values' = <<r1.obj, values[2]>> /\ fault' = r1.fault
                  ELSE values' = <<r1.obj, r2.obj>> /\ fault' = r2.fault
             /\ hist' = [j \in 1..2 |->
                           IF j <= entered
                             THEN [hist[j] EXCEPT !.ops = Append(@, hist[j].assigned)]
                             ELSE hist[j]]
    /\ lastCall' = [op |-> "Operation", id |-> 0]
    /\ UNCHANGED <<heap, handle, bench>>

\* SetOperationStrategy(...) with a strategy of behaviour b on the IntValue
\* and then on the FloatValue (ReferenceSemantics: each argument is made by
\* std::make_unique before the strategy held so far is deleted).
TwinSetOperationStrategy(b) ==
    /\ fault = "none"
    /\ bench.phase = "twin"
    /\ bench.ns \in {"ReferenceSemantics", "ValueSemantics"}
    /\ IF bench.ns = "ReferenceSemantics"
         THEN LET a1 == MakeUniqueAt(heap)
                  h1 == Delete([heap EXCEPT ![a1] = b],
                               values[1].m_OperationStrategy)
                  a2 == MakeUniqueAt(h1)
              IN  /\ values' = <<RS_SetOperationStrategy(values[1], a1),
                                 RS_SetOperationStrategy(values[2], a2)>>
                  /\ heap' = Delete([h1 EXCEPT ![a2] = b],
                                    values[2].m_OperationStrategy)
         ELSE /\ values' = <<VS_SetOperationStrategy(values[1], b),
                             VS_SetOperationStrategy(values[2], b)>>
              /\ heap' = heap
    /\ hist' = [j \in 1..2 |-> [hist[j] EXCEPT !.assigned = b]]
    /\ lastCall' = [op |-> "SetOperationStrategy", id |-> 0]
    /\ UNCHANGED <<handle, fault, bench>>

\* The two containers go out of scope.
TwinDestroy ==
    /\ fault = "none"
    /\ bench.phase = "twin"
    /\ values' = <<>>
    /\ hist' = <<>>
    /\ heap' = Delete(Delete(heap, Owned(values[1])), Owned(values[2]))
    /\ bench' = [ns |-> "none", phase |-> "idle", i |-> 0]
    /\ lastCall' = [op |-> "Destroy", id |-> 0]
    /\ UNCHANGED <<handle, fault>>

NextTwin ==
    \/ \E ns \in Namespaces, n \in WholeSamples, b \in Behaviours :
         TwinConstruct(ns, n, b)
    \/ TwinOperation
    \/ \E b \in Behaviours : TwinSetOperationStrategy(b)
    \/ TwinDestroy

SpecTwin == Init /\ [][NextTwin]_vars



(***************************************************************************)
(* Vocabulary of the properties                                            *)
(***************************************************************************)
\* How many of the Operation() calls recorded in ops ran under behaviour b.
Count(ops, b) == Cardinality({k \in 1..Len(ops) : ops[k] = b})

\* ops is some calls under Increment followed by some under Decrement.
IsIncThenDec(ops) ==
    \E n \in 0..Len(ops) :
      \A k \in 1..Len(ops) : ops[k] = IF k <= n THEN "Increment" ELSE "Decrement"

\* The float x is a whole number of magnitude at most 2^24: the range in
\* which every whole number is a float.
IsUnitExact(x) ==
    \/ x.m = 0
    \/ x.e <= 0 /\ x.e > -24 /\ x.m % Pow2(-x.e) = 0
    \/ x.e = 1 /\ Abs(x.m) = Pow2(23)

\* The integer a scalar stands for (a float within IsUnitExact).
AsInteger(cls, v) ==
    IF cls = "IntValue" THEN v
    ELSE IF v.m = 0 THEN 0
    ELSE IF v.e >= 0 THEN v.m * Pow2(v.e)
    ELSE v.m \div Pow2(-v.e)

\* The scalar of class cls that stands for the integer k.
Scalar(cls, k) == IF cls = "IntValue" THEN k ELSE FloatOfInt(k)

\* Starting at init, n steps up and then m steps down stay where the
\* class's arithmetic is exact: within int32, or within the whole floats of
\* magnitude at most 2^24.
StaysExact(cls, init, n, m) ==
    IF cls = "IntValue"
      THEN init <= INT32_MAX - n /\ init + n >= INT32_MIN + m
      ELSE /\ IsUnitExact(init)
           /\ AsInteger(cls, init) + n <= Pow2(24)
           /\ AsInteger(cls, init) + n - m >= -Pow2(24)

Swappable == {"ReferenceSemantics", "ValueSemantics"}

\* x + k in int32_t arithmetic that wraps modulo 2^32 (|k| below 2^31).
Wrap32(x, k) ==
    IF k > 0 /\ x > INT32_MAX - k
      THEN INT32_MIN + ((k - 1) - (INT32_MAX - x))
    ELSE IF k < 0 /\ x < INT32_MIN - k
      THEN INT32_MAX - (((-k) - 1) - (x - INT32_MIN))
    ELSE x + k

\* The float y is a multiple of 2^-24 of magnitude below 2^30.
OnGrid(y) ==
    \/ y.m = 0
    \/ y.e >= -24 /\ y.e <= 6
    \/ y.e < -24 /\ y.e > -48 /\ y.m % Pow2(-24 - y.e) = 0

\* For y OnGrid, y = Whole(y) + Frac24(y) / 2^24 with 0 <= Frac24(y) < 2^24.
Whole(y) ==
    IF y.m = 0 THEN 0
    ELSE IF y.e >= 0 THEN y.m * Pow2(y.e)
    ELSE IF y.e >= -24 THEN y.m \div Pow2(-y.e)
    ELSE (y.m \div Pow2(-24 - y.e)) \div Pow2(24)

Frac24(y) ==
    IF y.m = 0 \/ y.e >= 0 THEN 0
    ELSE IF y.e >= -24 THEN (y.m % Pow2(-y.e)) * Pow2(24 + y.e)
    ELSE (y.m \div Pow2(-24 - y.e)) % Pow2(24)

\* The float v is the real number x + k, exactly (k an integer, |k| < 64).
\* Off the grid and k # 0, x + k is no float: below 2^-24 in the last
\* place it would need more than 24 digits, and from 2^30 on the floats
\* are at least 64 apart.
FloatIsSum(v, x, k) ==
    IF k = 0 THEN v = x
    ELSE /\ OnGrid(x) /\ OnGrid(v)
         /\ Whole(v) = Whole(x) + k
         /\ Frac24(v) = Frac24(x)

\* The scalar v of class cls is x + k: in wrapping int32 arithmetic for an
\* IntValue, as a real number for a FloatValue.
ScalarIsSum(cls, v, x, k) ==
    IF cls = "IntValue" THEN v = Wrap32(x, k) ELSE FloatIsSum(v, x, k)

(***************************************************************************)
(* C1.  (As claimed.)  In ReferenceSemantics and ValueSemantics, for       *)
(* IntValue and FloatValue: a container whose Operation() calls since it   *)
(* was given its value ran n times under Increment and then m times under  *)
(* Decrement holds initial + n - m, whatever the initial value (int32      *)
(* taken to wrap, a run that stops on an overflow not being held against   *)
(* the claim).                                                             *)
(***************************************************************************)
C1_IncrementThenDecrementEverywhere ==
    \A i \in Live :
      LET c == values[i]
          n == Count(hist[i].ops, "Increment")
          m == Count(hist[i].ops, "Decrement")
      IN  (/\ c.ns \in Swappable
           /\ IsIncThenDec(hist[i].ops)
           /\ fault = "none")
          => ScalarIsSum(c.cls, GetValue(c), hist[i].init, n - m)

(***************************************************************************)
(* C1 as amended.  The same, for the initial values from which the n + m   *)
(* steps stay exact (StaysExact): an int32 from which no step overflows,   *)
(* a whole float from which no step leaves [-2^24, 2^24].  n and m are     *)
(* counted from the behaviours the caller passed to the constructor and to *)
(* SetOperationStrategy.  With initial 0 these are the unit tests' 1, 2,   *)
(* then 1, 0.                                                              *)
(***************************************************************************)
C1_IncrementThenDecrement ==
    \A i \in Live :
      LET c == values[i]
          n == Count(hist[i].ops, "Increment")
          m == Count(hist[i].ops, "Decrement")
      IN  (/\ c.ns \in Swappable
           /\ IsIncThenDec(hist[i].ops)
           /\ StaysExact(c.cls, hist[i].init, n, m))
          => GetValue(c) = Scalar(c.cls, AsInteger(c.cls, hist[i].init) + n - m)

\* A FloatValue built with 0.0f and Increment, after two Operation() calls,
\* the swap to Decrement and two more calls: back at 0.0f.
C1_Witness ==
    \E i \in Live :
      /\ values[i].ns = "ValueSemantics" /\ values[i].cls = "FloatValue"
      /\ hist[i].init = FloatOfInt(0)
      /\ hist[i].ops = <<"Increment", "Increment", "Decrement", "Decrement">>
      /\ GetValue(values[i]) = FloatOfInt(0)

(***************************************************************************)
(* C2.  (As claimed.)  In Template, a container IntValue<S> or             *)
(* FloatValue<S> runs every Operation() under S, and every call changes    *)
(* the value by exactly +1 (S = Increment) or -1 (S = Decrement): after k  *)
(* calls from initial it holds initial + k or initial - k, whatever the    *)
(* initial value (int32 taken to wrap, a run that stops on an overflow not *)
(* being held against the claim).                                          *)
(***************************************************************************)
C2_TemplateStepsEverywhere ==
    \A i \in Live :
      LET c == values[i]
          k == Len(hist[i].ops)
      IN  (c.ns = "Template" /\ fault = "none") =>
            /\ \A j \in 1..k : hist[i].ops[j] = c.m_OperationStrategy
            /\ ScalarIsSum(c.cls, GetValue(c), hist[i].init,
                           IF c.m_OperationStrategy = "Increment" THEN k ELSE -k)

(***************************************************************************)
(* C2 as amended.  The same, for the initial values from which the k steps *)
(* stay exact (StaysExact): an int32 from which no step overflows, a whole *)
(* float from which no step leaves [-2^24, 2^24]; from 0: 1, 2 and -1, -2. *)
(***************************************************************************)
C2_TemplateSteps ==
    \A i \in Live :
      LET c == values[i]
          k == Len(hist[i].ops)
          n == IF c.m_OperationStrategy = "Increment" THEN k ELSE 0
          m == IF c.m_OperationStrategy = "Decrement" THEN k ELSE 0
      IN  c.ns = "Template" =>
            /\ \A j \in 1..k : hist[i].ops[j] = c.m_OperationStrategy
            /\ StaysExact(c.cls, hist[i].init, n, m)
                 => GetValue(c) = Scalar(c.cls, AsInteger(c.cls, hist[i].init) + n - m)

\* An IntValue<Decrement> built with 0, after two Operation() calls: -2.
C2_Witness ==
    \E i \in Live :
      /\ values[i].ns = "Template" /\ values[i].cls = "IntValue"
      /\ values[i].m_OperationStrategy = "Decrement"
      /\ hist[i].init = 0 /\ Len(hist[i].ops) = 2
      /\ GetValue(values[i]) = -2

(***************************************************************************)
(* C3.  (As claimed.)  In ReferenceSemantics and ValueSemantics every      *)
(* container holds a usable strategy in every reachable state, so          *)
(* Operation() never runs on a null unique_ptr or an empty std::function   *)
(* and never fails.                                                        *)
(***************************************************************************)
C3_OperationNeverFails ==
    /\ fault \notin {"null_dereference", "bad_function_call"}
    /\ \A i \in Live :
         lastCall.op = "Operation" /\ values[i].ns \in Swappable
           => Behaviour(values[i], heap) # "none"

(***************************************************************************)
(* C4.  A container's value changes only in a step that is an Operation()  *)
(* or a SetValue() call on that container; a SetOperationStrategy() or a   *)
(* GetValue() call leaves the value of every container as it was.          *)
(***************************************************************************)
C4_ValueFrame ==
    [][\A i \in (DOMAIN values) \cap (DOMAIN values') :
         /\ GetValue(values'[i]) # GetValue(values[i])
              => lastCall'.op \in {"Operation", "SetValue"} /\ lastCall'.id = i
         /\ lastCall'.op \in {"SetOperationStrategy", "GetValue"}
              => GetValue(values'[i]) = GetValue(values[i])]_vars

\* Just after the swap of the unit test: two Operation() calls under
\* Increment, then SetOperationStrategy(Decrement), the value still 2.
C4_Witness ==
    \E i \in Live :
      /\ lastCall = [op |-> "SetOperationStrategy", id |-> i]
      /\ values[i].ns = "ValueSemantics" /\ values[i].cls = "IntValue"
      /\ hist[i].ops = <<"Increment", "Increment">>
      /\ hist[i].assigned = "Decrement"
      /\ GetValue(values[i]) = 2

(***************************************************************************)
(* C5.  In each namespace CreateRandomValue returns one container, whose   *)
(* scalar is 0 and whose class and behaviour are fixed by its two draws:   *)
(* the first chooses IntValue (true) or FloatValue (false), the second     *)
(* Increment (true) or Decrement (false).  (Checked where the benchmark    *)
(* calls it; the witness has all four combinations in one vector.)         *)
(***************************************************************************)
C5_FactoryOutcome ==
    lastCall.op = "CreateRandomValue" =>
      /\ fault = "none"
      /\ lastCall.id \in Live
      /\ Live = 1..lastCall.id
      /\ LET c == values[lastCall.id]
         IN  /\ c.ns = lastCall.ns
             /\ c.cls = (IF lastCall.draws[1] THEN "IntValue" ELSE "FloatValue")
             /\ Behaviour(c, heap) =
                  (IF lastCall.draws[2] THEN "Increment" ELSE "Decrement")
             /\ GetValue(c) = Zero(c.cls)

\* A vector of ValueSemantics containers that holds all four combinations.
C5_Witness ==
    /\ bench.ns = "ValueSemantics" /\ bench.phase = "build"
    /\ \A cls \in Classes, b \in Behaviours :
         \E i \in Live :
           /\ values[i].cls = cls /\ Behaviour(values[i], heap) = b
           /\ GetValue(values[i]) = Zero(cls)


(***************************************************************************)
(* C6.  A ReferenceSemantics and a ValueSemantics container of the same    *)
(* class, built with the same value and behaviour and given the same       *)
(* Operation(), SetOperationStrategy(Increment / Decrement) and            *)
(* SetValue(x) calls, hold the same value after every step; the Template   *)
(* container agrees with both as long as no strategy was swapped.          *)
(***************************************************************************)
C6_SameValues ==
    (bench.phase = "lockstep" /\ fault = "none") =>
      /\ GetValue(values[1]) = GetValue(values[2])
      /\ bench.i = 0 => GetValue(values[3]) = GetValue(values[1])

\* IntValues built with 0 and Increment, after Operation(), the swap to
\* Decrement and two more Operation(): -1 in both swappable containers, 3
\* in the Template one.
C6_Witness ==
    /\ bench.phase = "lockstep" /\ bench.i = 1 /\ fault = "none"
    /\ values[1].cls = "IntValue" /\ hist[1].init = 0
    /\ hist[1].ops = <<"Increment", "Decrement", "Decrement">>
    /\ GetValue(values[1]) = -1 /\ GetValue(values[2]) = -1
    /\ GetValue(values[3]) = 3

(***************************************************************************)
(* C7.  Round trip.                                                        *)
(***************************************************************************)
\* The strategy of behaviour b of the container's namespace, run on it.
RunUnder(b, self) ==
    IF self.ns = "ReferenceSemantics" THEN RS_Run(b, self)
    ELSE IF self.ns = "ValueSemantics" THEN VS_Run(b, self)
    ELSE T_Run(b, self)

\* C7 as claimed: for every initial value v, one Operation() under Increment
\* and then one under Decrement leave the container at v (read with the
\* wrap-around the specification gives int32: a run that traps on overflow
\* is not held against it).
C7_RoundTripEverywhere ==
    \A i \in Live :
      (/\ values[i].ns \in Swappable
       /\ hist[i].ops = <<"Increment", "Decrement">>
       /\ fault = "none")
      => GetValue(values[i]) = hist[i].init

\* C7 as amended: the round trip holds from every int32 v < INT32_MAX and
\* from every float v that is a whole number with -2^24 <= v < 2^24 (v and
\* v + 1 both exact).  First conjunct: Increment then Decrement of the
\* container's namespace, applied to the value it holds now, in all three
\* namespaces; second: the two Operation() calls as they were made.
C7_RoundTrip ==
    \A i \in Live :
      LET c == values[i]
      IN  /\ StaysExact(c.cls, GetValue(c), 1, 1) =>
                \A r1 \in RunUnder("Increment", c) :
                  /\ r1.fault = "none"
                  /\ \A r2 \in RunUnder("Decrement", r1.obj) :
                       r2.fault = "none" /\ GetValue(r2.obj) = GetValue(c)
          /\ (/\ c.ns \in Swappable
              /\ hist[i].ops = <<"Increment", "Decrement">>
              /\ StaysExact(c.cls, hist[i].init, 1, 1))
             => fault = "none" /\ GetValue(c) = hist[i].init

\* The largest float of the amended range, 16777215.0f, after its round
\* trip through 16777216.0f.
C7_Witness ==
    \E i \in Live :
      /\ values[i].ns = "ReferenceSemantics" /\ values[i].cls = "FloatValue"
      /\ hist[i].init = FloatOfInt(16777215)
      /\ hist[i].ops = <<"Increment", "Decrement">>
      /\ GetValue(values[i]) = FloatOfInt(16777215)

(***************************************************************************)
(* C8.  The benchmark runs in two phases that do not interleave: while the *)
(* vector is built no Operation() has run; Operation() runs only once all  *)
(* BenchCount containers are stored, once on each, in the order they were  *)
(* created; when the second loop has ended every container holds +1 or -1  *)
(* (1.0f or -1.0f).                                                        *)
(***************************************************************************)
C8_TwoPhases ==
    /\ bench.phase = "build" =>
         /\ Len(values) = bench.i
         /\ \A j \in Live : hist[j].ops = <<>> /\ GetValue(values[j]) = Zero(values[j].cls)
    /\ (bench.phase = "operate" /\ fault = "none") =>
         /\ Len(values) = BenchCount
         /\ \A j \in Live : Len(hist[j].ops) = (IF j <= bench.i THEN 1 ELSE 0)
    /\ (bench.phase = "done" /\ fault = "none") =>
         /\ Len(values) = BenchCount
         /\ \A j \in Live :
              /\ Len(hist[j].ops) = 1
              /\ GetValue(values[j]) \in
                   {Scalar(values[j].cls, 1), Scalar(values[j].cls, -1)}

\* A finished run that holds both a 1 and a -1.0f.
C8_Witness ==
    /\ bench.phase = "done" /\ Len(values) = BenchCount
    /\ values[1].cls = "IntValue" /\ GetValue(values[1]) = 1
    /\ values[BenchCount].cls = "FloatValue"
    /\ GetValue(values[BenchCount]) = FloatOfInt(-1)

(***************************************************************************)
(* C9.  Containers are independent: the value and the strategy of a        *)
(* container change only in a step that is an Operation(),                 *)
(* SetOperationStrategy() or SetValue() call on that very container; a     *)
(* call on one container (and the making of a strategy, a construction, a  *)
(* destruction) leaves every other container as it was.                    *)
(***************************************************************************)
C9_Independence ==
    [][\A i \in (DOMAIN values) \cap (DOMAIN values') :
         (\/ values'[i] # values[i]
          \/ Behaviour(values'[i], heap') # Behaviour(values[i], heap))
         => /\ lastCall'.id = i
            /\ lastCall'.op \in {"Operation", "SetOperationStrategy", "SetValue"}]_vars

\* Two live containers, the first just operated on and changed, the second
\* untouched since it was built.
C9_Witness ==
    /\ Live = {1, 2}
    /\ lastCall = [op |-> "Operation", id |-> 1]
    /\ values[1].ns = "ValueSemantics" /\ values[2].ns = "ReferenceSemantics"
    /\ values[1].cls = "IntValue" /\ values[2].cls = "IntValue"
    /\ GetValue(values[1]) = 1 /\ hist[1].ops = <<"Increment">>
    /\ GetValue(values[2]) = 0 /\ hist[2].ops = <<>>
    /\ Behaviour(values[2], heap) = "Decrement"

(***************************************************************************)
(* C10.  (As claimed.)  In ReferenceSemantics every strategy has one       *)
(* owner: a construction or a SetOperationStrategy leaves the caller's     *)
(* handle empty, no strategy is held by two containers (or by a container  *)
(* and the handle), and, the caller's handle being empty, there are as     *)
(* many live strategies as live containers.                                *)
(***************************************************************************)
LiveStrategies == {a \in Addresses : heap[a] # "free"}

RSContainers == {i \in Live : values[i].ns = "ReferenceSemantics"}

\* The part of C10 about the owners: each live strategy is held by exactly
\* one of the containers and the handle, and nothing points to a freed one.
C10_SingleOwner ==
    /\ \A a \in LiveStrategies :
         Cardinality({i \in RSContainers : Owned(values[i]) = a})
           + (IF handle = a THEN 1 ELSE 0) = 1
    /\ \A i \in RSContainers : Owned(values[i]) \in LiveStrategies \cup {nullptr}
    /\ handle \in LiveStrategies \cup {nullptr}
    /\ (lastCall.op \in {"Construct", "SetOperationStrategy"}
          /\ lastCall.id \in RSContainers) => handle = nullptr

C10_OneStrategyPerContainer ==
    /\ C10_SingleOwner
    /\ handle = nullptr => Cardinality(LiveStrategies) = Cardinality(RSContainers)

(***************************************************************************)
(* C11.  (As claimed.)  An IntValue's scalar is a 32-bit signed integer    *)
(* that wraps: Operation() under Increment on a container holding          *)
(* 2147483647 completes and leaves -2147483648, Operation() under          *)
(* Decrement on a container holding -2147483648 completes and leaves       *)
(* 2147483647, and the value is always within [-2^31, 2^31 - 1].           *)
(***************************************************************************)
\* The part of C11 about the range: an IntValue holds an int32_t.
C11_Int32Range ==
    \A i \in Live :
      values[i].cls = "IntValue"
        => GetValue(values[i]) >= INT32_MIN /\ GetValue(values[i]) <= INT32_MAX

C11_WrapsOnOverflow ==
    /\ C11_Int32Range
    /\ \A i \in Live :
         values[i].cls = "IntValue" =>
           /\ (hist[i].init = INT32_MAX /\ hist[i].ops = <<"Increment">>)
                => fault = "none" /\ GetValue(values[i]) = INT32_MIN
           /\ (hist[i].init = INT32_MIN /\ hist[i].ops = <<"Decrement">>)
                => fault = "none" /\ GetValue(values[i]) = INT32_MAX

(***************************************************************************)
(* C12.  Float and int variants.                                           *)
(***************************************************************************)
\* The value an exact container reaches from init after the first k of the
\* calls ops.
After(init, ops, k) ==
    init + Cardinality({j \in 1..k : ops[j] = "Increment"})
         - Cardinality({j \in 1..k : ops[j] = "Decrement"})

\* From init, the calls ops never leave [-2^24, 2^24], the range in which
\* every whole number is a float.
WithinExactRange(init, ops) ==
    \A k \in 0..Len(ops) :
      After(init, ops, k) >= -Pow2(24) /\ After(init, ops, k) <= Pow2(24)

\* C12 as claimed: for every sequence of Operation() and swap calls on an
\* IntValue and a FloatValue built with the same whole number and the same
\* behaviour, after each step the FloatValue holds the float that
\* represents the IntValue's value.
C12_FloatTracksIntEverywhere ==
    (bench.phase = "twin" /\ fault = "none") =>
      GetValue(values[2]) = FloatOfInt(GetValue(values[1]))

\* C12 as amended: the same, for the sequences on which the IntValue's
\* value stays within [-2^24, 2^24] from the construction on: there each
\* step of the FloatValue is exactly +1.0f or -1.0f, no rounding, and both
\* containers hold initial + n - m.
C12_FloatTracksInt ==
    (/\ bench.phase = "twin"
     /\ fault = "none"
     /\ WithinExactRange(hist[1].init, hist[1].ops)) =>
      /\ GetValue(values[1]) = After(hist[1].init, hist[1].ops, Len(hist[1].ops))
      /\ GetValue(values[2]) = FloatOfInt(GetValue(values[1]))
      /\ AsInteger("FloatValue", GetValue(values[2])) = GetValue(values[1])

\* ReferenceSemantics twins built with 16777215 and Increment, after
\* Operation() (16777216, the edge of the range), the swap to Decrement and
\* two more Operation(): 16777214 and 16777214.0f.
C12_Witness ==
    /\ bench = [ns |-> "ReferenceSemantics", phase |-> "twin", i |-> 0]
    /\ fault = "none"
    /\ hist[1].init = 16777215
    /\ hist[1].ops = <<"Increment", "Decrement", "Decrement">>
    /\ GetValue(values[1]) = 16777214
    /\ GetValue(values[2]) = FloatOfInt(16777214)

(***************************************************************************)
(* C13.  Operation() never changes which strategy a container holds, and   *)
(* what it does is fixed by the value the container holds and the          *)
(* behaviour the caller passed last (to SetOperationStrategy, or to the    *)
(* constructor if there was no swap): in every state the container holds   *)
(* the behaviour passed last; an Operation() step leaves the container's   *)
(* strategy member and the strategy objects as they were; and its outcome  *)
(* is an outcome of that behaviour's arithmetic on the value held before   *)
(* the call, whatever calls and swaps came earlier.                        *)
(***************************************************************************)
\* The outcomes <<value, fault>> of one step of behaviour b on the scalar v
\* of class cls: a function of cls, v and b alone.
StepOutcomes(cls, v, b) ==
    LET d == IF b = "Increment" THEN 1 ELSE -1
    IN  IF cls = "IntValue"
          THEN {<<r.val, r.fault>> : r \in Int32Add(v, d)}
          ELSE {<<FloatAdd1(v, d), "none">>}

C13_StrategyFixed ==
    [][/\ \A i \in DOMAIN values' :
            Behaviour(values'[i], heap') = hist'[i].assigned
       /\ \A i \in (DOMAIN values) \cap (DOMAIN values') :
            (lastCall'.op = "Operation" /\ lastCall'.id = i) =>
              /\ values'[i].m_OperationStrategy = values[i].m_OperationStrategy
              /\ heap' = heap
              /\ hist'[i].assigned = hist[i].assigned
              /\ hist[i].assigned \in Behaviours =>
                   <<GetValue(values'[i]), fault'>> \in
                      StepOutcomes(values[i].cls, GetValue(values[i]),
                                   hist[i].assigned)]_vars

\* A ReferenceSemantics IntValue built with Increment, operated on, swapped
\* to Decrement, swapped back to Increment and just operated on again: the
\* second call ran Increment, and the container holds Increment.
C13_Witness ==
    \E i \in Live :
      /\ lastCall = [op |-> "Operation", id |-> i]
      /\ values[i].ns = "ReferenceSemantics" /\ values[i].cls = "IntValue"
      /\ hist[i].init = 0
      /\ hist[i].ops = <<"Increment", "Decrement", "Decrement", "Increment">>
      /\ Behaviour(values[i], heap) = "Increment"
      /\ GetValue(values[i]) = 0

=============================================================================
